---- MODULE Spec2Model ----
(***************************************************************************)
(* Model of src/escape/esc.rs: the Esc value type, the EscCode table,      *)
(* Esc::parse / Esc::internal_parse and Esc::encode_escape writing into a  *)
(* std::io::Write sink.                                                    *)
(*                                                                         *)
(* Option<u8> is a sequence of length 0 (None) or 1 (Some(b)).             *)
(* A byte buffer and the sink are sequences of bytes.                      *)
(***************************************************************************)
EXTENDS Integers, Sequences, FiniteSets

VARIABLES pc, origin, intermediate, control, esc, sink, calls, raised, res,
          reparsed

vars == <<pc, origin, intermediate, control, esc, sink, calls, raised, res,
          reparsed>>

\* ------------------------------------------------------------------ bounds
\* The most bytes the sink may still accept when write_all is called; a
\* write_all of a buffer no longer than that succeeds.
MaxRoom == 2

\* ------------------------------------------------------------- primitives
U8Max == 255
U16Max == 65535
ESC == 27

u8 == 0..U8Max

None == <<>>
Some(b) == <<b>>
OptionU8 == {None} \cup {Some(b) : b \in u8}

\* The errors a sink can raise (std::io::ErrorKind, two representatives).
IoError == {"WriteZero", "BrokenPipe"}

RECURSIVE BitOr(_, _)
BitOr(a, b) ==
    IF a = 0 /\ b = 0 THEN 0
    ELSE (IF a % 2 = 1 \/ b % 2 = 1 THEN 1 ELSE 0)
         + 2 * BitOr(a \div 2, b \div 2)

\* (x as u16) << 8
Shl8(x) == (x * 256) % (U16Max + 1)
\* x >> 8
Shr8(x) == x \div 256
\* (x & 0xff)
Low8(x) == x % 256

\* --------------------------------------------------------------- EscCode
\* esc!($low) and esc!($high, $low)
esc1(low) == low
\* esc!($high, $low) with the shift left out
esc2_noshift(high, low) == BitOr(high, low)
esc2(high, low) == BitOr(high * 256, low)

Discriminant ==
    [ FullReset                      |-> esc1(99),      \* 'c'
      Index                          |-> esc1(68),      \* 'D'
      NextLine                       |-> esc1(69),      \* 'E'
      CursorPositionLowerLeft        |-> esc1(70),      \* 'F'
      HorizontalTabSet               |-> esc1(72),      \* 'H'
      ReverseIndex                   |-> esc1(77),      \* 'M'
      SingleShiftG2                  |-> esc1(78),      \* 'N'
      SingleShiftG3                  |-> esc1(79),      \* 'O'
      StartOfGuardedArea             |-> esc1(86),      \* 'V'
      EndOfGuardedArea               |-> esc1(87),      \* 'W'
      StartOfString                  |-> esc1(88),      \* 'X'
      ReturnTerminalId               |-> esc1(90),      \* 'Z'
      StringTerminator               |-> esc1(92),      \* '\\'
      PrivacyMessage                 |-> esc1(94),      \* '^'
      ApplicationProgramCommand      |-> esc1(95),      \* '_'
      DecSaveCursorPosition          |-> esc1(55),      \* '7'
      DecRestoreCursorPosition       |-> esc1(56),      \* '8'
      DecApplicationKeyPad           |-> esc1(61),      \* '='
      DecNormalKeyPad                |-> esc1(62),      \* '>'
      DecLineDrawing                 |-> esc2(40, 48),  \* '(' '0'
      AsciiCharacterSet              |-> esc2(40, 66),  \* '(' 'B'
      ApplicationModeArrowUpPress    |-> esc2(79, 65),  \* 'O' 'A'
      ApplicationModeArrowDownPress  |-> esc2(79, 66),  \* 'O' 'B'
      ApplicationModeArrowRightPress |-> esc2(79, 67),  \* 'O' 'C'
      ApplicationModeArrowLeftPress  |-> esc2(79, 68),  \* 'O' 'D'
      ApplicationModeHomePress       |-> esc2(79, 72),  \* 'O' 'H'
      ApplicationModeEndPress        |-> esc2(79, 70),  \* 'O' 'F'
      F1Press                        |-> esc2(79, 80),  \* 'O' 'P'
      F2Press                        |-> esc2(79, 81),  \* 'O' 'Q'
      F3Press                        |-> esc2(79, 82),  \* 'O' 'R'
      F4Press                        |-> esc2(79, 83) ] \* 'O' 'S'

EscCode == DOMAIN Discriminant

\* derive(FromPrimitive): the code whose discriminant is n, if any
from_u16(n) ==
    IF \E c \in EscCode : Discriminant[c] = n
    THEN Some(CHOOSE c \in EscCode : Discriminant[c] = n)
    ELSE None

\* to_u8 called where to_u16 is meant
to_u16_narrow(code) ==
    IF Discriminant[code] \in 0..U8Max THEN Some(Discriminant[code])
    ELSE None

\* derive(ToPrimitive): the discriminant, if it fits a u16
to_u16(code) ==
    IF Discriminant[code] \in 0..U16Max THEN Some(Discriminant[code])
    ELSE None

\* ------------------------------------------------------------------- Esc
Unspecified(i, c) == [tag |-> "Unspecified", intermediate |-> i, control |-> c]
Code(code) == [tag |-> "Code", code |-> code]

Esc == {Unspecified(i, c) : i \in OptionU8, c \in u8}
       \cup {Code(code) : code \in EscCode}

\* the packed key with the shift of the intermediate left out
packed_noshift(i, c) ==
    IF i # None THEN BitOr(i[1], c) ELSE c

\* let packed = match intermediate { ... }
packed(i, c) ==
    IF i # None THEN BitOr(Shl8(i[1]), c) ELSE c

Ok(v) == [ok |-> TRUE, val |-> v]
Err(e) == [ok |-> FALSE, err |-> e]

internal_parse(i, c) ==
    LET code == from_u16(packed(i, c))
    IN  IF code = None THEN Err("unit") ELSE Ok(Code(code[1]))

\* parse whose fallback drops the intermediate
parse_lossy(i, c) ==
    LET r == internal_parse(i, c)
    IN  IF r.ok THEN r.val ELSE Unspecified(None, c)

parse(i, c) ==
    LET r == internal_parse(i, c)
    IN  IF r.ok THEN r.val ELSE Unspecified(i, c)

\* the two-byte buffer written least-significant byte first
CodeBuf_swapped(p) ==
    IF p > U8Max THEN <<Low8(p), Shr8(p) % 256>> ELSE <<Low8(p)>>

\* the two-byte branch left out
CodeBuf_lowonly(p) == <<Low8(p)>>

\* the buffer encode_escape builds for Code(code), given its packed key
CodeBuf(p) ==
    IF p > U8Max THEN <<Shr8(p) % 256, Low8(p)>> ELSE <<Low8(p)>>

\* the intermediate byte left out of the buffer
UnspecifiedBuf_drop(i, c) == <<c>>

\* the buffer encode_escape builds for Unspecified { intermediate, control }
UnspecifiedBuf(i, c) ==
    IF i # None THEN <<i[1], c>> ELSE <<c>>

\* ------------------------------------------------------------------ sink
Min(a, b) == IF a < b THEN a ELSE b

\* std::io::Write::write_all on a sink that accepts `room` more bytes: the
\* bytes that fit are written, and the call fails when not all of them fit.
write_all(s, buf, room) ==
    LET n == Min(room, Len(buf))
    IN  [sink |-> s \o SubSeq(buf, 1, n), ok |-> n = Len(buf)]

\* --------------------------------------------------------------- actions
Init ==
    /\ pc = "start"
    /\ origin = "none"
    /\ intermediate = None
    /\ control = 0
    /\ esc = <<>>
    /\ sink = <<>>
    /\ calls = 0
    /\ raised = <<>>
    /\ res = <<>>
    /\ reparsed = <<>>

\* A caller hands a byte pair to Esc::parse.
CallParse ==
    /\ pc = "start"
    /\ \E i \in OptionU8, c \in u8 :
         /\ intermediate' = i
         /\ control' = c
         /\ esc' = <<parse(i, c)>>
    /\ origin' = "parse"
    /\ pc' = "have"
    /\ UNCHANGED <<sink, calls, raised, res, reparsed>>

\* A caller builds an Esc value directly (the enum and its fields are pub).
Construct ==
    /\ pc = "start"
    /\ \E v \in Esc : esc' = <<v>>
    /\ origin' = "built"
    /\ pc' = "have"
    /\ UNCHANGED <<intermediate, control, sink, calls, raised, res, reparsed>>

\* encode_escape whose first write_all has lost its `?`: the error is dropped
\* and the encoder goes on to the payload
EncodeMarker_swallow ==
    /\ pc = "have"
    /\ \E room \in 0..MaxRoom :
         LET w == write_all(sink, <<ESC>>, room)
         IN  /\ sink' = w.sink
             /\ calls' = calls + 1
             /\ pc' = "marker"
             /\ IF w.ok
                THEN UNCHANGED <<raised, res>>
                ELSE \E e \in IoError :
                     /\ raised' = <<e>>
                     /\ UNCHANGED res
    /\ UNCHANGED <<origin, intermediate, control, esc, reparsed>>

\* encode_escape, first statement: w.write_all(&[0x1b])?
EncodeMarker ==
    /\ pc = "have"
    /\ \E room \in 0..MaxRoom :
         LET w == write_all(sink, <<ESC>>, room)
         IN  /\ sink' = w.sink
             /\ calls' = calls + 1
             /\ IF w.ok
                THEN /\ pc' = "marker"
                     /\ UNCHANGED <<raised, res>>
                ELSE \E e \in IoError :
                     /\ raised' = <<e>>
                     /\ res' = <<Err(e)>>
                     /\ pc' = "returned"
    /\ UNCHANGED <<origin, intermediate, control, esc, reparsed>>

\* encode_escape, the match: build the payload buffer, write_all(&buf)?, Ok(())
EncodePayload ==
    /\ pc = "marker"
    /\ LET v == esc[1]
           key == IF v.tag = "Code" THEN to_u16(v.code) ELSE None
       IN  IF v.tag = "Code" /\ key = None
           THEN \* .expect("num-derive failed to implement ToPrimitive")
                /\ pc' = "panic"
                /\ UNCHANGED <<sink, calls, raised, res>>
           ELSE \E room \in 0..MaxRoom :
                LET buf == IF v.tag = "Code" THEN CodeBuf(key[1])
                           ELSE UnspecifiedBuf(v.intermediate, v.control)
                    w == write_all(sink, buf, room)
                IN  /\ sink' = w.sink
                    /\ calls' = calls + 1
                    /\ pc' = "returned"
                    /\ IF w.ok
                       THEN /\ res' = <<Ok("unit")>>
                            /\ UNCHANGED raised
                       ELSE \E e \in IoError :
                            /\ raised' = <<e>>
                            /\ res' = <<Err(e)>>
    /\ UNCHANGED <<origin, intermediate, control, esc, reparsed>>

\* test::parse, lines 155-159, applied to the payload a successful
\* encode_escape left after the marker byte.
Reparse ==
    /\ pc = "returned"
    /\ res = <<Ok("unit")>>
    /\ LET p == Tail(sink)
       IN  reparsed' = IF Len(p) = 1 THEN <<parse(None, p[1])>>
                       ELSE <<parse(Some(p[1]), p[2])>>
    /\ pc' = "reparsed"
    /\ UNCHANGED <<origin, intermediate, control, esc, sink, calls, raised, res>>

Next ==
    \/ CallParse
    \/ Construct
    \/ EncodeMarker
    \/ EncodePayload
    \/ Reparse

Spec == Init /\ [][Next]_vars

\* ================================================================ claims
\* The payload the documentation prescribes for a value: the code's key as
\* one byte, or as two bytes most-significant first; the stored bytes of an
\* Unspecified.
ExpectedPayload(v) ==
    IF v.tag = "Code"
    THEN LET k == Discriminant[v.code]
         IN  IF k < 256 THEN <<k>> ELSE <<k \div 256, k % 256>>
    ELSE v.intermediate \o <<v.control>>

Encoded == pc \in {"returned", "reparsed"} /\ res = <<Ok("unit")>>

\* C1: for every pair given to parse, a successful encode of the parsed
\* value into the empty sink leaves 0x1B, the intermediate (when present)
\* and the control byte, in that order, nothing dropped or added.
C1_RoundTrip ==
    (origin = "parse" /\ Encoded)
        => sink = <<ESC>> \o intermediate \o <<control>>

\* C2: the key internal_parse computes is below 256 when no intermediate is
\* given and at least 256 when one is, so that no pair with an intermediate
\* has the key of a pair without one.
C2_KeysDisjoint ==
    origin = "parse" =>
        IF intermediate = None
        THEN packed(intermediate, control) < 256
        ELSE /\ packed(intermediate, control) >= 256
             /\ \A c \in u8 : packed(None, c) # packed(intermediate, control)

\* C3: parse always returns a value; it is Code(code) exactly when the
\* packed key of the pair is the discriminant of a code, and then of that
\* code; otherwise it is Unspecified holding exactly the given pair, whose
\* key is then not in the table.
C3_ParseExact ==
    origin = "parse" =>
        /\ Len(esc) = 1
        /\ esc[1] \in Esc
        /\ LET v == esc[1]
               k == packed(intermediate, control)
               hit == \E code \in EscCode : Discriminant[code] = k
           IN  /\ (v.tag = "Code") <=> hit
               /\ v.tag = "Code" => Discriminant[v.code] = k
               /\ v.tag = "Unspecified" =>
                    /\ v.intermediate = intermediate
                    /\ v.control = control
                    /\ ~hit

C3_Witness ==
    /\ origin = "parse"
    /\ pc = "have"
    /\ intermediate = Some(90)
    /\ control = 153
    /\ esc = <<Unspecified(Some(90), 153)>>

\* C4: for every code of the table, a successful encode of Code(code)
\* leaves 0x1B and the key as one byte (key below 256) or two bytes
\* most-significant first, and parsing that payload gives Code(code) again.
C4_CodeEncodeParse ==
    (esc # <<>> /\ esc[1].tag = "Code") =>
        /\ Encoded =>
             LET k == Discriminant[esc[1].code]
             IN  sink = <<ESC>> \o (IF k < 256 THEN <<k>>
                                    ELSE <<k \div 256, k % 256>>)
        /\ pc = "reparsed" => reparsed = <<Code(esc[1].code)>>

C4_Witness ==
    /\ origin = "built"
    /\ pc = "reparsed"
    /\ esc = <<Code("F1Press")>>
    /\ sink = <<27, 79, 80>>
    /\ reparsed = esc

\* C5: the table has 31 codes and no other code has the discriminant of
\* the code a value holds: the codes' keys are pairwise distinct.
C5_KeysInjective ==
    /\ Cardinality(EscCode) = 31
    /\ (esc # <<>> /\ esc[1].tag = "Code") =>
         \A d \in EscCode \ {esc[1].code} :
             Discriminant[d] # Discriminant[esc[1].code]

C5_Witness ==
    /\ origin = "built"
    /\ pc = "have"
    /\ esc = <<Code("ApplicationModeArrowUpPress")>>

\* What C6 has in common with its amended form: Ok exactly when no write
\* failed, the sink's own error returned, nothing written or retried after
\* a failure, and a failed marker write leaves the sink empty.
C6_Common ==
    /\ pc \in {"returned", "reparsed"} =>
         /\ raised = <<>> => res = <<Ok("unit")>>
         /\ raised # <<>> => res = <<Err(raised[1])>>
    /\ raised # <<>> =>
         /\ pc = "returned"
         /\ calls \in {1, 2}
         /\ calls = 1 => sink = <<>>

\* C6 as stated: a failed payload write leaves exactly the marker byte.
C6_Original ==
    /\ C6_Common
    /\ (raised # <<>> /\ calls = 2) => sink = <<ESC>>

\* C6 (amended): encode_escape returns Ok when the sink accepts every
\* write and otherwise the sink's error, with no further write and no
\* retry; a failed marker write leaves no byte of this call, and a failed
\* payload write leaves the marker byte followed by a proper prefix of the
\* payload (possibly empty).
C6_SinkFailure ==
    /\ C6_Common
    /\ (raised # <<>> /\ calls = 2) =>
         LET buf == ExpectedPayload(esc[1])
             n == Len(sink) - 1
         IN  /\ n \in 0..(Len(buf) - 1)
             /\ sink = <<ESC>> \o SubSeq(buf, 1, n)

C6_Witness ==
    /\ pc = "returned"
    /\ esc = <<Code("DecLineDrawing")>>
    /\ calls = 2
    /\ raised = <<"BrokenPipe">>
    /\ res = <<Err("BrokenPipe")>>
    /\ sink = <<27, 40>>

\* C7: for every Esc value, parsed or built, the marker is in the sink
\* before any payload byte, and a successful encode has appended 0x1B and
\* then one payload byte (key below 256, or intermediate absent) or two
\* (otherwise): 2 or 3 bytes in all.
C7_MarkerFirstAndLength ==
    /\ pc = "marker" => sink = <<ESC>>
    /\ Encoded =>
         LET v == esc[1]
             one == IF v.tag = "Code" THEN Discriminant[v.code] < 256
                    ELSE v.intermediate = None
         IN  /\ sink[1] = ESC
             /\ calls = 2
             /\ Len(sink) \in {2, 3}
             /\ Len(sink) = IF one THEN 2 ELSE 3

C7_Witness ==
    /\ origin = "built"
    /\ pc = "returned"
    /\ esc = <<Unspecified(Some(79), 80)>>
    /\ res = <<Ok("unit")>>
    /\ sink = <<27, 79, 80>>

\* C8: the documented examples: "(0" is DecLineDrawing, "(B" is
\* AsciiCharacterSet, "c" is FullReset, "OP" is F1Press, and 'Z' 0x99 is
\* Unspecified{Some('Z'), 0x99}; each encodes to 0x1B and the same bytes.
C8_Example(i, c, v) ==
    (origin = "parse" /\ intermediate = i /\ control = c) =>
        /\ esc = <<v>>
        /\ Encoded => sink = <<ESC>> \o i \o <<c>>

C8_KnownMappings ==
    /\ C8_Example(Some(40), 48, Code("DecLineDrawing"))
    /\ C8_Example(Some(40), 66, Code("AsciiCharacterSet"))
    /\ C8_Example(None, 99, Code("FullReset"))
    /\ C8_Example(Some(79), 80, Code("F1Press"))
    /\ C8_Example(Some(90), 153, Unspecified(Some(90), 153))

C8_Witness ==
    /\ origin = "parse"
    /\ pc = "returned"
    /\ intermediate = Some(40)
    /\ control = 48
    /\ res = <<Ok("unit")>>
    /\ sink = <<27, 40, 48>>

\* C9: a value returned by parse is what parsing its own encoded payload
\* returns.
C9_ParseRangeStable ==
    (origin = "parse" /\ pc = "reparsed") => reparsed = esc

C9_Witness ==
    /\ origin = "parse"
    /\ pc = "reparsed"
    /\ intermediate = Some(0)
    /\ control = 99
    /\ esc = <<Code("FullReset")>>
    /\ reparsed = esc

\* C10: the expect in encode_escape never fires: the discriminant of the
\* code being encoded is in 0..65535, and when it is above 255 its high
\* byte is in 1..255 and high * 256 + low gives the key back.
C10_ExpectNeverFires ==
    /\ pc # "panic"
    /\ (esc # <<>> /\ esc[1].tag = "Code") =>
         LET k == Discriminant[esc[1].code]
         IN  /\ k \in 0..U16Max
             /\ pc \in {"marker", "returned", "reparsed"} =>
                  to_u16(esc[1].code) = Some(k)
             /\ k > U8Max =>
                  /\ Shr8(k) \in 1..U8Max
                  /\ Shr8(k) * 256 + Low8(k) = k

C10_Witness ==
    /\ pc = "returned"
    /\ esc = <<Code("ApplicationModeEndPress")>>
    /\ res = <<Ok("unit")>>
    /\ sink = <<27, 79, 70>>

====
